---------------------------- MODULE Spec2Model ----------------------------
(***************************************************************************)
(* A model of plot_eeg_ecg.py: the straight-line build pipeline of main()  *)
(* (validate, coerce/sort the time axis, filter, classify, derive the ECG  *)
(* series, add the traces, build the two dropdown menus, write the HTML)   *)
(* followed by the viewer applying the precomputed menu buttons to the     *)
(* written figure.                                                         *)
(*                                                                         *)
(* Python lists are sequences; list indices stored by the code are kept    *)
(* 0-based as the code stores them and written through SetAt.  A table     *)
(* cell is a tagged pair: <<"num", n>> a number, <<"str", 0>> a text that  *)
(* is no number, <<"nan", 0>> a missing value.  A pandas Series is a       *)
(* sequence of [idx, v] records, idx being the row label given at read.    *)
(* Strings are kept in ASCII: the program's "μ" is written "u" in every    *)
(* label and title ("ECG in uV" is the button 'ECG in μV').                *)
(***************************************************************************)
EXTENDS Integers, Sequences, FiniteSets, TLC

(***************************************************************************)
(* Bounds of the explored inputs.                                          *)
(***************************************************************************)
MaxCols == 3
MaxRows == 2

(***************************************************************************)
(* Module-level tables of the program.                                     *)
(***************************************************************************)
EEG_CHANNELS ==
    << "Fz", "Cz", "P3", "C3", "F3", "F4", "C4", "P4",
       "Fp1", "Fp2", "T3", "T4", "T5", "T6",
       "O1", "O2", "F7", "F8", "A1", "A2", "Pz" >>

ECG_KEYS == << "X1:LEOG", "X2:REOG" >>

ECG_CHANNELS(raw) ==
    CASE raw = "X1:LEOG" -> "ECG_Left"
      [] raw = "X2:REOG" -> "ECG_Right"

IGNORE_EXACT ==
    {"Trigger", "Time_Offset", "ADC_Status", "ADC_Sequence", "Event", "Comments"}

IGNORE_PREFIXES == << "X3:" >>

tcol == "Time"

(***************************************************************************)
(* Python / pandas primitives.                                             *)
(***************************************************************************)
Range(s) == {s[i] : i \in 1..Len(s)}

SetAt(s, i, v) == [s EXCEPT ![i + 1] = v]

RECURSIVE SetAll(_, _, _)
SetAll(s, idxs, v) ==
    IF idxs = << >> THEN s
    ELSE SetAll(SetAt(s, Head(idxs), v), Tail(idxs), v)

Repeat(v, n) == [i \in 1..n |-> v]

RECURSIVE Select(_, _)
Select(s, keep) ==
    IF s = << >> THEN << >>
    ELSE IF Head(s) \in keep THEN << Head(s) >> \o Select(Tail(s), keep)
    ELSE Select(Tail(s), keep)

startswith(c, pfx) ==
    /\ Len(c) >= Len(pfx)
    /\ SubSeq(c, 1, Len(pfx)) = pfx

Num(n) == << "num", n >>
Str == << "str", 0 >>
NaN == << "nan", 0 >>

IsNum(cell) == cell[1] = "num"

to_numeric(cell) == IF IsNum(cell) THEN cell ELSE NaN

Column(df, c) == [i \in 1..Len(df.rows) |->
                    [idx |-> df.rows[i].idx, v |-> df.rows[i].cells[c]]]

Project(df, keep) ==
    [columns |-> keep,
     dtypes  |-> [c \in Range(keep) |-> df.dtypes[c]],
     rows    |-> [i \in 1..Len(df.rows) |->
                    [idx   |-> df.rows[i].idx,
                     cells |-> [c \in Range(keep) |-> df.rows[i].cells[c]]]]]

(***************************************************************************)
(* df[tcol] = pd.to_numeric(df[tcol], errors="coerce")                     *)
(***************************************************************************)
coerce_time(df) ==
    [df EXCEPT !.dtypes[tcol] = "float64",
               !.rows = [i \in 1..Len(df.rows) |->
                           [df.rows[i] EXCEPT !.cells[tcol] = to_numeric(@)]]]

(***************************************************************************)
(* df.dropna(subset=[tcol])                                                *)
(***************************************************************************)
RECURSIVE dropna(_)
dropna(rows) ==
    IF rows = << >> THEN << >>
    ELSE IF IsNum(Head(rows).cells[tcol])
         THEN << Head(rows) >> \o dropna(Tail(rows))
         ELSE dropna(Tail(rows))

IsSortedByTime(rows) ==
    \A i \in 1..Len(rows) : \A j \in 1..Len(rows) :
        i < j => rows[i].cells[tcol][2] <= rows[j].cells[tcol][2]

\* sort_values with the sort left out
sort_values_unsorted(rows) == { rows }

(***************************************************************************)
(* .sort_values(tcol): the default sort kind is not stable, so every       *)
(* ascending arrangement of the rows is a possible result.                 *)
(***************************************************************************)
sort_values(rows) ==
    IF rows = << >> THEN { << >> }
    ELSE { s \in { [i \in 1..Len(rows) |-> rows[p[i]]] :
                      p \in Permutations(1..Len(rows)) } :
             IsSortedByTime(s) }

(***************************************************************************)
(* filter_columns: the time column first, then every other column that is  *)
(* neither in IGNORE_EXACT nor starts with one of IGNORE_PREFIXES.         *)
(***************************************************************************)
IsIgnored(c) ==
    \/ c \in IGNORE_EXACT
    \/ \E k \in 1..Len(IGNORE_PREFIXES) : startswith(c, IGNORE_PREFIXES[k])

RECURSIVE keep_columns(_, _)
keep_columns(cols, tc) ==
    IF cols = << >> THEN << >>
    ELSE IF Head(cols) = tc \/ IsIgnored(Head(cols))
         THEN keep_columns(Tail(cols), tc)
         ELSE << Head(cols) >> \o keep_columns(Tail(cols), tc)

\* filter_columns without the IGNORE_PREFIXES test
RECURSIVE keep_columns_exact_only(_, _)
keep_columns_exact_only(cols, tc) ==
    IF cols = << >> THEN << >>
    ELSE IF Head(cols) = tc \/ Head(cols) \in IGNORE_EXACT
         THEN keep_columns_exact_only(Tail(cols), tc)
         ELSE << Head(cols) >> \o keep_columns_exact_only(Tail(cols), tc)

filter_columns_exact_only(df, tc) ==
    Project(df, << tc >> \o keep_columns_exact_only(df.columns, tc))

filter_columns(df, tc) == Project(df, << tc >> \o keep_columns(df.columns, tc))

\* split_roles taking every column that is neither ECG nor CM for EEG
split_roles_rest_is_eeg(cols) ==
    [eeg     |-> Select(cols, Range(cols) \ (Range(ECG_KEYS) \cup {"CM"})),
     ecg_raw |-> Select(cols, Range(ECG_KEYS)),
     cm      |-> Select(cols, {"CM"})]

split_roles(cols) ==
    [eeg     |-> Select(cols, Range(EEG_CHANNELS)),
     ecg_raw |-> Select(cols, Range(ECG_KEYS)),
     cm      |-> Select(cols, {"CM"})]

(***************************************************************************)
(* Lines 69-75: the two unit dictionaries, in insertion order.             *)
(***************************************************************************)
\* the μV series scaled by 100
times_100(series) ==
    [i \in 1..Len(series) |->
        [series[i] EXCEPT !.v = IF IsNum(@) THEN Num(@[2] * 100) ELSE NaN]]

times_1000(series) ==
    [i \in 1..Len(series) |->
        [series[i] EXCEPT !.v = IF IsNum(@) THEN Num(@[2] * 1000) ELSE NaN]]

derive_uv(df, raws) ==
    [k \in 1..Len(raws) |->
        [label  |-> ECG_CHANNELS(raws[k]) \o " (uV)",
         series |-> times_1000(Column(df, raws[k]))]]

derive_mv(df, raws) ==
    [k \in 1..Len(raws) |->
        [label  |-> ECG_CHANNELS(raws[k]) \o " (mV)",
         series |-> Column(df, raws[k])]]

(***************************************************************************)
(* Multiplying a text (object) column by 1000.0 raises TypeError on its    *)
(* first element.  With no row left nothing is multiplied and the outcome  *)
(* depends on the column's array type, so both outcomes are possible.      *)
(***************************************************************************)
MultiplyRaises(df, raws) ==
    { b \in BOOLEAN :
        \/ b /\ \E k \in 1..Len(raws) : df.dtypes[raws[k]] = "object"
        \/ ~b /\ \A k \in 1..Len(raws) :
                    df.dtypes[raws[k]] = "object" => df.rows = << >> }

(***************************************************************************)
(* Lines 77-123: the traces in the order EEG, CM, ECG (mV), ECG (μV), and  *)
(* for each group the positions len(fig.data) - 1 at which they were added.*)
(* visible is "None" where go.Scatter is given no visible argument.        *)
(***************************************************************************)
Scatter(name, x, y, visible, secondary_y, dash) ==
    [name |-> name, x |-> x, y |-> y, visible |-> visible,
     secondary_y |-> secondary_y, dash |-> dash]

eeg_traces(df, eeg) ==
    [k \in 1..Len(eeg) |->
        Scatter(eeg[k], Column(df, tcol), Column(df, eeg[k]), "None", FALSE, "solid")]

cm_traces(df, cm) ==
    [k \in 1..Len(cm) |->
        Scatter("CM (uV, reference)", Column(df, tcol), Column(df, cm[k]),
                "None", TRUE, "dot")]

mv_traces(df, mv) ==
    [k \in 1..Len(mv) |->
        Scatter(mv[k].label, Column(df, tcol), mv[k].series, "None", TRUE, "solid")]

\* the μV traces added without visible=False
uv_traces_shown(df, uv) ==
    [k \in 1..Len(uv) |->
        Scatter(uv[k].label, Column(df, tcol), uv[k].series, "None", TRUE, "solid")]

uv_traces(df, uv) ==
    [k \in 1..Len(uv) |->
        Scatter(uv[k].label, Column(df, tcol), uv[k].series, "False", TRUE, "solid")]

Positions(before, n) == [k \in 1..n |-> before + k - 1]

add_traces(df, eeg, cm, mv, uv) ==
    [data |-> eeg_traces(df, eeg) \o cm_traces(df, cm)
                \o mv_traces(df, mv) \o uv_traces(df, uv),
     trace_indices |->
        [EEG    |-> Positions(0, Len(eeg)),
         CM     |-> Positions(Len(eeg), Len(cm)),
         ECG_mV |-> Positions(Len(eeg) + Len(cm), Len(mv)),
         ECG_uV |-> Positions(Len(eeg) + Len(cm) + Len(mv), Len(uv))]]

(***************************************************************************)
(* Lines 141-170: the precomputed visibility vectors.                      *)
(***************************************************************************)
\* visibility_all one entry short
visibility_all_short(total_traces) == Repeat(TRUE, total_traces - 1)

visibility_all(total_traces) == Repeat(TRUE, total_traces)

vis_eeg_only(total_traces, ti) == SetAll(Repeat(FALSE, total_traces), ti.EEG, TRUE)

\* vis_other_only without the skip of ECG_uV
vis_other_only_with_uv(total_traces, ti) ==
    SetAll(SetAll(SetAll(Repeat(FALSE, total_traces), ti.CM, TRUE), ti.ECG_mV, TRUE),
           ti.ECG_uV, TRUE)

vis_other_only(total_traces, ti) ==
    SetAll(SetAll(Repeat(FALSE, total_traces), ti.CM, TRUE), ti.ECG_mV, TRUE)

\* unit_mode_visibility showing the chosen unit without hiding the other
unit_mode_visibility_no_hide(mode, data, ti) ==
    LET vis == [i \in 1..Len(data) |->
                  IF data[i].visible # "None" THEN data[i].visible = "True"
                  ELSE TRUE]
    IN  IF mode = "mV"
        THEN SetAll(vis, ti.ECG_mV, TRUE)
        ELSE SetAll(vis, ti.ECG_uV, TRUE)

unit_mode_visibility(mode, data, ti) ==
    LET vis == [i \in 1..Len(data) |->
                  IF data[i].visible # "None" THEN data[i].visible = "True"
                  ELSE TRUE]
    IN  IF mode = "mV"
        THEN SetAll(SetAll(vis, ti.ECG_mV, TRUE), ti.ECG_uV, FALSE)
        ELSE SetAll(SetAll(vis, ti.ECG_mV, FALSE), ti.ECG_uV, TRUE)

(***************************************************************************)
(* Lines 173-214: the two dropdowns.  A button of method "update" carries  *)
(* args[0], the restyle of the traces, and optionally args[1], the         *)
(* relayout; relayout is << >> for a button without args[1].               *)
(***************************************************************************)
TITLE_MV == "ECG (mV) / CM (uV)"
TITLE_UV == "ECG (uV) / CM (uV)"

Button(label, visible, relayout) ==
    [label |-> label, visible |-> visible, relayout |-> relayout]

updatemenus(data, ti) ==
    << << Button("All", visibility_all(Len(data)), << >>),
          Button("EEG only", vis_eeg_only(Len(data), ti), << >>),
          Button("ECG+CM only", vis_other_only(Len(data), ti), << >>) >>,
       << Button("ECG in mV", unit_mode_visibility("mV", data, ti), << TITLE_MV >>),
          Button("ECG in uV", unit_mode_visibility("uV", data, ti), << TITLE_UV >>) >> >>

(***************************************************************************)
(* The viewer: what the written document shows when opened, and what a     *)
(* click on an "update" button does to it (restyle every trace's visible   *)
(* from args[0], relayout the secondary axis title from args[1]).          *)
(***************************************************************************)
Shown(data) == [i \in 1..Len(data) |-> data[i].visible # "False"]

apply_update(v, button) ==
    [visible      |-> button.visible,
     yaxis2_title |-> IF button.relayout = << >> THEN v.yaxis2_title
                      ELSE button.relayout[1]]

(***************************************************************************)
(* The input tables explored, as pd.read_csv returns them: distinct column *)
(* names (read_csv renames duplicates), rows labelled 0, 1, ..., and a     *)
(* column holding a text that is no number read as dtype object.           *)
(*   HeaderTables: every header of at most MaxCols names, one row.         *)
(*   RowTables:    one header with every role, at most MaxRows rows whose  *)
(*                 time and ECG cells vary.                                *)
(***************************************************************************)
ColNames ==
    {"Time", "Fz", "Pz", "X1:LEOG", "X2:REOG", "CM", "Trigger", "Event", "X3:Aux", "Foo"}

FullHeader == << "X2:REOG", "Time", "Fz", "X3:Aux", "CM", "X1:LEOG", "Foo" >>

TimeCells == {Num(1), Num(2), Str}

ECGCells == {Num(3), Num(-2), Str}

DefaultCell(c) == IF c = "Time" THEN Num(1) ELSE IF c = "CM" THEN Num(5) ELSE Num(3)

read_csv(header, cellrows) ==
    [columns |-> header,
     dtypes  |-> [c \in Range(header) |->
                    IF \E i \in 1..Len(cellrows) : cellrows[i][c] = Str
                    THEN "object" ELSE "float64"],
     rows    |-> [i \in 1..Len(cellrows) |-> [idx |-> i - 1, cells |-> cellrows[i]]]]

Headers ==
    UNION { { h \in [1..n -> ColNames] : \A i, j \in 1..n : i # j => h[i] # h[j] } :
            n \in 1..MaxCols }

HeaderTables ==
    { read_csv(h, << [c \in Range(h) |-> DefaultCell(c)] >>) : h \in Headers }

RowCells(h) ==
    { [c \in Range(h) |->
         CASE c = "Time" -> t
           [] c = "X1:LEOG" -> l
           [] c = "X2:REOG" -> r
           [] OTHER -> DefaultCell(c)] :
      t \in TimeCells, l \in ECGCells, r \in ECGCells }

RowTables ==
    { read_csv(FullHeader, rs) :
        rs \in UNION { [1..n -> RowCells(FullHeader)] : n \in 0..MaxRows } }

InputTables == HeaderTables \cup RowTables

(***************************************************************************)
(* State.                                                                  *)
(***************************************************************************)
VARIABLES
    pc,             \* the statement of main() to run next
    csv,            \* the table as read at line 53
    df,             \* the working table
    eeg_cols, ecg_raw_cols, cm_cols,
    ecg_uv, ecg_mv, \* dictionaries as sequences of [label, series]
    fig,            \* the figure: data, axis titles, updatemenus
    trace_indices,
    exit_code,      \* << >> while running, << n >> once the process has ended
    stderr,
    html,           \* << >> until written, then << the document >>
    view,           \* what the opened document shows
    clicked         \* the label of the button clicked last, "" for none

vars == << pc, csv, df, eeg_cols, ecg_raw_cols, cm_cols, ecg_uv, ecg_mv, fig,
           trace_indices, exit_code, stderr, html, view, clicked >>

build == << eeg_cols, ecg_raw_cols, cm_cols, ecg_uv, ecg_mv, fig, trace_indices >>
viewer == << html, view, clicked >>

Init ==
    /\ csv \in InputTables
    /\ df = csv
    /\ pc = "check_time"
    /\ eeg_cols = << >> /\ ecg_raw_cols = << >> /\ cm_cols = << >>
    /\ ecg_uv = << >> /\ ecg_mv = << >>
    /\ fig = [data |-> << >>, yaxis_title |-> "", yaxis2_title |-> "",
              updatemenus |-> << >>]
    /\ trace_indices = [EEG |-> << >>, ECG_uV |-> << >>, ECG_mV |-> << >>, CM |-> << >>]
    /\ exit_code = << >>
    /\ stderr = ""
    /\ html = << >>
    /\ view = [visible |-> << >>, yaxis2_title |-> ""]
    /\ clicked = ""

SystemExit(msg) ==
    /\ pc' = "exit"
    /\ exit_code' = << 1 >>
    /\ stderr' = msg

\* lines 55-57
CheckTime ==
    /\ pc = "check_time"
    /\ IF tcol \notin Range(df.columns)
       THEN SystemExit("Expected 'Time' column not found.")
       ELSE pc' = "coerce" /\ UNCHANGED << exit_code, stderr >>
    /\ UNCHANGED << csv, df, build, viewer >>

\* lines 58-59
CoerceSort ==
    /\ pc = "coerce"
    /\ \E rows \in sort_values(dropna(coerce_time(df).rows)) :
          df' = [coerce_time(df) EXCEPT !.rows = rows]
    /\ pc' = "filter"
    /\ UNCHANGED << csv, build, exit_code, stderr, viewer >>

\* line 61
FilterColumns ==
    /\ pc = "filter"
    /\ df' = filter_columns(df, tcol)
    /\ pc' = "split"
    /\ UNCHANGED << csv, build, exit_code, stderr, viewer >>

\* lines 63-67
SplitRoles ==
    /\ pc = "split"
    /\ LET data_cols == Select(df.columns, Range(df.columns) \ {tcol})
           r == split_roles(data_cols)
       IN  /\ eeg_cols' = r.eeg
           /\ ecg_raw_cols' = r.ecg_raw
           /\ cm_cols' = r.cm
           /\ IF r.eeg = << >> /\ r.ecg_raw = << >> /\ r.cm = << >>
              THEN SystemExit("No EEG/ECG/CM columns found after filtering. Check headers.")
              ELSE pc' = "derive" /\ UNCHANGED << exit_code, stderr >>
    /\ UNCHANGED << csv, df, ecg_uv, ecg_mv, fig, trace_indices, viewer >>

\* lines 69-75
DeriveECG ==
    /\ pc = "derive"
    /\ \E raises \in MultiplyRaises(df, ecg_raw_cols) :
          IF raises
          THEN /\ SystemExit("TypeError")
               /\ UNCHANGED << ecg_uv, ecg_mv >>
          ELSE /\ ecg_uv' = derive_uv(df, ecg_raw_cols)
               /\ ecg_mv' = derive_mv(df, ecg_raw_cols)
               /\ pc' = "traces"
               /\ UNCHANGED << exit_code, stderr >>
    /\ UNCHANGED << csv, df, eeg_cols, ecg_raw_cols, cm_cols, fig, trace_indices, viewer >>

\* lines 77-139
AddTraces ==
    /\ pc = "traces"
    /\ LET use_secondary == Len(ecg_uv) + Len(cm_cols) > 0
           t == add_traces(df, eeg_cols, cm_cols, ecg_mv, ecg_uv)
       IN  /\ fig' = [fig EXCEPT !.data = t.data,
                                 !.yaxis_title = "EEG & CM (uV)",
                                 !.yaxis2_title = IF use_secondary THEN TITLE_MV ELSE ""]
           /\ trace_indices' = t.trace_indices
    /\ pc' = "menus"
    /\ UNCHANGED << csv, df, eeg_cols, ecg_raw_cols, cm_cols, ecg_uv, ecg_mv,
                    exit_code, stderr, viewer >>

\* lines 141-214
BuildMenus ==
    /\ pc = "menus"
    /\ fig' = [fig EXCEPT !.updatemenus = updatemenus(fig.data, trace_indices)]
    /\ pc' = "write"
    /\ UNCHANGED << csv, df, eeg_cols, ecg_raw_cols, cm_cols, ecg_uv, ecg_mv,
                    trace_indices, exit_code, stderr, viewer >>

\* lines 216-221, and the end of main()
WriteHtml ==
    /\ pc = "write"
    /\ html' = << fig >>
    /\ view' = [visible |-> Shown(fig.data), yaxis2_title |-> fig.yaxis2_title]
    /\ exit_code' = << 0 >>
    /\ pc' = "done"
    /\ UNCHANGED << csv, df, build, stderr, clicked >>

\* a click on a button of the first dropdown of the written document
SelectPreset ==
    /\ pc = "done"
    /\ html # << >>
    /\ \E b \in 1..Len(html[1].updatemenus[1]) :
          /\ view' = apply_update(view, html[1].updatemenus[1][b])
          /\ clicked' = html[1].updatemenus[1][b].label
    /\ UNCHANGED << pc, csv, df, build, exit_code, stderr, html >>

\* a click on a button of the second dropdown of the written document
SelectUnit ==
    /\ pc = "done"
    /\ html # << >>
    /\ \E b \in 1..Len(html[1].updatemenus[2]) :
          /\ view' = apply_update(view, html[1].updatemenus[2][b])
          /\ clicked' = html[1].updatemenus[2][b].label
    /\ UNCHANGED << pc, csv, df, build, exit_code, stderr, html >>

Next ==
    \/ CheckTime
    \/ CoerceSort
    \/ FilterColumns
    \/ SplitRoles
    \/ DeriveECG
    \/ AddTraces
    \/ BuildMenus
    \/ WriteHtml
    \/ SelectPreset
    \/ SelectUnit

Spec == Init /\ [][Next]_vars

(***************************************************************************)
(* Vocabulary of the properties, read off the input and the written        *)
(* document rather than off the build's own bookkeeping.                   *)
(***************************************************************************)
EndsWith(name, sfx) ==
    /\ Len(name) >= Len(sfx)
    /\ SubSeq(name, Len(name) - Len(sfx) + 1, Len(name)) = sfx

Kind(trace) ==
    IF EndsWith(trace.name, " (mV)") THEN "ECG_mV"
    ELSE IF EndsWith(trace.name, " (uV)") THEN "ECG_uV"
    ELSE IF trace.name = "CM (uV, reference)" THEN "CM"
    ELSE "EEG"

HasTime == tcol \in Range(csv.columns)

DataNames == Range(csv.columns) \ {tcol}

Productive(c) == c \in Range(EEG_CHANNELS) \cup Range(ECG_KEYS) \cup {"CM"}

UsableNames == { c \in DataNames : ~IsIgnored(c) /\ Productive(c) }

Built == pc \in {"menus", "write", "done"}

Written == pc = "done" /\ html # << >>

Doc == html[1]

KindsShown(kinds) ==
    \A i \in 1..Len(Doc.data) : view.visible[i] <=> Kind(Doc.data[i]) \in kinds

HasKinds(kinds) ==
    \A k \in kinds : \E i \in 1..Len(Doc.data) : Kind(Doc.data[i]) = k

(***************************************************************************)
(* C2: on either validation failure (no Time column, or no column in the   *)
(* EEG, ECG-raw or Reference role after the ignore filter) the run ends    *)
(* with a non-zero exit code and a message, never passes the second        *)
(* validation, and the HTML document is never written.                     *)
(***************************************************************************)
C2_ValidationFailureWritesNothing ==
    (~HasTime \/ UsableNames = {}) =>
        /\ html = << >>
        /\ pc \in {"check_time", "coerce", "filter", "split", "exit"}
        /\ pc # "exit" => exit_code = << >> /\ ENABLED Next
        /\ pc = "exit" => /\ exit_code # << >>
                          /\ exit_code[1] # 0
                          /\ stderr # ""

C2_Witness ==
    /\ pc = "exit"
    /\ Range(csv.columns) = {"Time", "Trigger", "Event"}
    /\ stderr = "No EEG/ECG/CM columns found after filtering. Check headers."
    /\ html = << >>

(***************************************************************************)
(* C3: every input with the Time column and at least one column in the     *)
(* EEG, ECG-raw or Reference role never fails, and ends with the document  *)
(* written and exit code zero.                                             *)
(***************************************************************************)
C3_ValidInputSucceeds ==
    (HasTime /\ UsableNames # {}) =>
        /\ pc # "exit"
        /\ exit_code # << >> => exit_code = << 0 >> /\ html # << >>

(***************************************************************************)
(* C4 as stated: once split_roles has run, every non-time column of the    *)
(* input has exactly one of the roles EEG, ECG-raw, Reference(CM),         *)
(* Ignored, Ignored being the ignore rule of filter_columns.               *)
(***************************************************************************)
Classified == pc \notin {"check_time", "coerce", "filter", "split"} /\ HasTime

RolesOf(c) ==
    { r \in {"EEG", "ECG-raw", "CM", "Ignored"} :
        \/ r = "EEG" /\ c \in Range(eeg_cols)
        \/ r = "ECG-raw" /\ c \in Range(ecg_raw_cols)
        \/ r = "CM" /\ c \in Range(cm_cols)
        \/ r = "Ignored" /\ IsIgnored(c) }

C4_ExactlyOneRole ==
    Classified => \A c \in DataNames : Cardinality(RolesOf(c)) = 1

(***************************************************************************)
(* C4 as amended: once split_roles has run, every non-time column has at   *)
(* most one of the four roles, decided by its name alone; a column the     *)
(* ignore rule matches is no column of the table split_roles is given and  *)
(* is in none of its lists; a column the ignore rule does not match is     *)
(* given to split_roles and is in the list its name selects, or in no list *)
(* (no role at all) when its name is no EEG label, no ECG key and not CM.  *)
(***************************************************************************)
C4_AtMostOneRole ==
    Classified =>
        \A c \in DataNames :
            /\ Cardinality(RolesOf(c)) <= 1
            /\ IsIgnored(c) => c \notin Range(df.columns)
            /\ ~IsIgnored(c) =>
                  /\ c \in Range(df.columns)
                  /\ c \in Range(eeg_cols) <=> c \in Range(EEG_CHANNELS)
                  /\ c \in Range(ecg_raw_cols) <=> c \in Range(ECG_KEYS)
                  /\ c \in Range(cm_cols) <=> c = "CM"
                  /\ RolesOf(c) = {} <=> ~Productive(c)

C4_Witness ==
    /\ Classified
    /\ csv.columns = FullHeader
    /\ "X3:Aux" \notin Range(df.columns)
    /\ "Foo" \in Range(df.columns)
    /\ RolesOf("Foo") = {}
    /\ RolesOf("X3:Aux") = {"Ignored"}
    /\ RolesOf("X1:LEOG") = {"ECG-raw"}

(***************************************************************************)
(* C5: the rows behind every trace are exactly the input rows whose time   *)
(* is numeric, each once, in non-decreasing time order; every trace has    *)
(* the same time x-series and its y-series runs over the same rows.        *)
(***************************************************************************)
NumericTimeRows ==
    { i \in 1..Len(csv.rows) : IsNum(csv.rows[i].cells[tcol]) }

C5_TracesOverNumericTimeRowsSorted ==
    Built =>
        \A k \in 1..Len(fig.data) :
            LET x == fig.data[k].x
                y == fig.data[k].y
            IN  /\ x = fig.data[1].x
                /\ Len(x) = Cardinality(NumericTimeRows)
                /\ { x[i].idx : i \in 1..Len(x) }
                      = { csv.rows[i].idx : i \in NumericTimeRows }
                /\ \A i \in 1..Len(x) :
                      \E r \in NumericTimeRows :
                          /\ csv.rows[r].idx = x[i].idx
                          /\ csv.rows[r].cells[tcol] = x[i].v
                /\ \A i, j \in 1..Len(x) : i < j => x[i].v[2] <= x[j].v[2]
                /\ Len(y) = Len(x)
                /\ \A i \in 1..Len(x) : y[i].idx = x[i].idx

C5_Witness ==
    /\ Written
    /\ Len(csv.rows) = 2
    /\ csv.rows[1].cells[tcol] = Num(2)
    /\ csv.rows[2].cells[tcol] = Num(1)
    /\ Doc.data[1].x = << [idx |-> 1, v |-> Num(1)], [idx |-> 0, v |-> Num(2)] >>

(***************************************************************************)
(* C6: for every ECG-raw column of the input there is exactly one trace    *)
(* '<remapped name> (mV)' and exactly one '<remapped name> (μV)', over the *)
(* same time axis, and row by row the μV value is 1000 times the mV value. *)
(***************************************************************************)
Named(name) == { k \in 1..Len(fig.data) : fig.data[k].name = name }

C6_TwoUnitTracesPerLead ==
    Built =>
        /\ \A raw \in DataNames \cap Range(ECG_KEYS) :
              /\ Cardinality(Named(ECG_CHANNELS(raw) \o " (mV)")) = 1
              /\ Cardinality(Named(ECG_CHANNELS(raw) \o " (uV)")) = 1
              /\ \A m \in Named(ECG_CHANNELS(raw) \o " (mV)") :
                 \A u \in Named(ECG_CHANNELS(raw) \o " (uV)") :
                    LET mv == fig.data[m]
                        uv == fig.data[u]
                    IN  /\ uv.x = mv.x
                        /\ Len(uv.y) = Len(mv.y)
                        /\ \A i \in 1..Len(mv.y) :
                              /\ uv.y[i].idx = mv.y[i].idx
                              /\ IsNum(mv.y[i].v)
                              /\ uv.y[i].v = Num(mv.y[i].v[2] * 1000)
        /\ Cardinality({ k \in 1..Len(fig.data) :
                            Kind(fig.data[k]) \in {"ECG_mV", "ECG_uV"} })
              = 2 * Cardinality(DataNames \cap Range(ECG_KEYS))

C6_Witness ==
    /\ Written
    /\ \E u \in Named("ECG_Left (uV)") : \E m \in Named("ECG_Left (mV)") :
          /\ Len(fig.data[u].y) = 2
          /\ fig.data[u].y[1].v = Num(-2000)
          /\ fig.data[m].y[1].v = Num(-2)
          /\ fig.data[u].y[2].v = Num(3000)
    /\ Named("ECG_Right (uV)") # {}

(***************************************************************************)
(* C7: the vector of the 'All' button is all-true and as long as the trace *)
(* list, whose length is |EEG| + |Reference| + 2 * |ECG-raw| columns of    *)
(* the input; every trace position is in exactly one of the four groups of *)
(* trace_indices and no group holds anything else.                         *)
(***************************************************************************)
AllButton == fig.updatemenus[1][1]

GroupsOf(i) ==
    { g \in {"EEG", "CM", "ECG_mV", "ECG_uV"} :
        \E k \in 1..Len(trace_indices[g]) : trace_indices[g][k] = i }

C7_AllPresetCoversEveryTrace ==
    pc \in {"write", "done"} =>
        /\ AllButton.label = "All"
        /\ Len(AllButton.visible) = Len(fig.data)
        /\ \A i \in 1..Len(AllButton.visible) : AllButton.visible[i] = TRUE
        /\ Len(fig.data)
              = Cardinality(UsableNames \cap Range(EEG_CHANNELS))
                + Cardinality(UsableNames \cap {"CM"})
                + 2 * Cardinality(UsableNames \cap Range(ECG_KEYS))
        /\ \A i \in 0..(Len(fig.data) - 1) : Cardinality(GroupsOf(i)) = 1
        /\ \A g \in {"EEG", "CM", "ECG_mV", "ECG_uV"} :
              /\ \A k \in 1..Len(trace_indices[g]) :
                    trace_indices[g][k] \in 0..(Len(fig.data) - 1)
              /\ \A k, l \in 1..Len(trace_indices[g]) :
                    k # l => trace_indices[g][k] # trace_indices[g][l]

C7_Witness ==
    /\ pc = "done"
    /\ Len(fig.data) = 6
    /\ Len(AllButton.visible) = 6
    /\ GroupsOf(5) = {"ECG_uV"}
    /\ GroupsOf(0) = {"EEG"}

(***************************************************************************)
(* C8: right after 'ECG+CM only' is selected, whatever was selected        *)
(* before, exactly the Reference and the ECG-mV traces are visible.        *)
(***************************************************************************)
C8_OtherOnlyShowsCMAndMV ==
    (Written /\ clicked = "ECG+CM only") => KindsShown({"CM", "ECG_mV"})

C8_Witness ==
    /\ Written
    /\ clicked = "ECG+CM only"
    /\ view.yaxis2_title = TITLE_UV
    /\ HasKinds({"EEG", "CM", "ECG_mV", "ECG_uV"})
    /\ KindsShown({"CM", "ECG_mV"})

(***************************************************************************)
(* C9: in the written document, before any selection, every EEG, every     *)
(* Reference and every ECG-mV trace is visible and every ECG-μV trace is   *)
(* hidden, so of the two traces of an ECG lead exactly the mV one shows.   *)
(***************************************************************************)
C9_InitialVisibility ==
    Written =>
        /\ \A i \in 1..Len(Doc.data) :
              (Doc.data[i].visible # "False") <=> Kind(Doc.data[i]) # "ECG_uV"
        /\ clicked = "" => KindsShown({"EEG", "CM", "ECG_mV"})
        /\ \A i, j \in 1..Len(Doc.data) :
              ( /\ Kind(Doc.data[i]) = "ECG_mV"
                /\ Kind(Doc.data[j]) = "ECG_uV"
                /\ SubSeq(Doc.data[i].name, 1, Len(Doc.data[i].name) - 5)
                     = SubSeq(Doc.data[j].name, 1, Len(Doc.data[j].name) - 5) )
              => /\ Doc.data[i].visible # "False"
                 /\ Doc.data[j].visible = "False"

C9_Witness ==
    /\ Written
    /\ clicked = ""
    /\ HasKinds({"EEG", "CM", "ECG_mV", "ECG_uV"})
    /\ KindsShown({"EEG", "CM", "ECG_mV"})

(***************************************************************************)
(* C10: right after 'ECG in mV' is selected every ECG-mV trace is visible, *)
(* every ECG-μV trace is hidden and the secondary axis title names mV for  *)
(* ECG; right after 'ECG in μV' the other way round, the title naming μV.  *)
(***************************************************************************)
ShownOfKind(kind, b) ==
    \A i \in 1..Len(Doc.data) : Kind(Doc.data[i]) = kind => view.visible[i] = b

C10_UnitSelectionShowsThatUnit ==
    Written =>
        /\ clicked = "ECG in mV" =>
              /\ ShownOfKind("ECG_mV", TRUE)
              /\ ShownOfKind("ECG_uV", FALSE)
              /\ view.yaxis2_title = "ECG (mV) / CM (uV)"
        /\ clicked = "ECG in uV" =>
              /\ ShownOfKind("ECG_uV", TRUE)
              /\ ShownOfKind("ECG_mV", FALSE)
              /\ view.yaxis2_title = "ECG (uV) / CM (uV)"

C10_Witness ==
    /\ Written
    /\ clicked = "ECG in uV"
    /\ HasKinds({"EEG", "CM", "ECG_mV", "ECG_uV"})
    /\ ShownOfKind("ECG_uV", TRUE)
    /\ ShownOfKind("ECG_mV", FALSE)

(***************************************************************************)
(* C1: a selection in the unit dropdown leaves the visibility of every EEG *)
(* trace and of every Reference trace as it was just before the selection. *)
(***************************************************************************)
C1_UnitSelectionKeepsOtherTraces ==
    [][ (Written /\ clicked' \in {"ECG in mV", "ECG in uV"}) =>
           \A i \in 1..Len(Doc.data) :
               Kind(Doc.data[i]) \in {"EEG", "CM"} =>
                   view'.visible[i] = view.visible[i] ]_vars

=============================================================================
